---------------------------- MODULE Spec2Model ----------------------------
(***************************************************************************)
(* Membership-inference attack data pipeline                               *)
(* (shadow_models/cifar_models/extract_output.py; the extraction part is   *)
(* repeated verbatim in shadow_models/synthetic_cifar_models).             *)
(*                                                                         *)
(* The main loop walks the shadow-model ids, skips an id whose data files  *)
(* or checkpoint are absent, otherwise runs get_outputs over the train     *)
(* loader (member flag 1) and the test loader (member flag 0), removes     *)
(* duplicate probability vectors and saves the per-model archive.  After   *)
(* the loop combine_attack_data lists the archives of the output           *)
(* directory, stacks them and writes a stratified 70/30 split.             *)
(*                                                                         *)
(* A probability is counted in halves, so <<1, 1>> is (0.5, 0.5) and a     *)
(* vector passes the allclose check exactly when its entries add up to two *)
(* halves.  Datasets are non-empty.  evaluate_model only prints.           *)
(***************************************************************************)
EXTENDS Integers, Sequences, FiniteSets, TLC

\* ------------------------------------------------------------ bounds
\* shadow-model ids walked by the main loop (range(1, 31) in the program)
NumShadowModels == 2
\* samples per data loader
MaxSamples == 2
\* samples per batch (batch_size=256 in the program)
BatchSize == 1

\* ------------------------------------------------------- program constants
TestSizeTenths == 3
RandomState == 42

ShadowIds == 1..NumShadowModels
\* what the os.path.exists calls for one id can report: the first artifact
\* found absent (train file, then test file, then checkpoint), or none
Absent == {"train", "test", "model"}
\* softmax outputs in halves; <<1, 0>> does not sum to one
ProbVectors == {<<2, 0>>, <<1, 1>>, <<1, 0>>}
\* what a loader and the model yield for one sample: <<1, 1>> is produced for
\* samples of either class
Samples ==
    {[prob |-> <<2, 0>>, label |-> 0], [prob |-> <<1, 1>>, label |-> 0],
     [prob |-> <<1, 1>>, label |-> 1], [prob |-> <<1, 0>>, label |-> 0]}
NoFile == <<>>

VARIABLES
    shadow_id,      \* loop variable of __main__
    pc,             \* "main", "train", "test", "dedup", "combine", "done", "recombined", "aborted"
    error,          \* the uncaught exception that ended the run, or "none"
    seen,           \* per id: the artifact found absent, "none", or "not looked"
    log,            \* per id: the status line the run printed for it
    outputs,        \* probabilities/labels/members of the current extraction
    loaderRead,     \* samples the current loader has yielded
    loaderOpen,     \* FALSE once the loader yielded a short (last) batch
    conflicts,      \* conflict lines printed by the current extraction
    attack_data,    \* OUTPUT_DIR: per id the archive, or NoFile
    combined,       \* OUTPUT_DIR/combined_attack_data.npz, or NoFile
    combinedWrites  \* number of times the combined archive was written

vars == <<shadow_id, pc, error, seen, log, outputs, loaderRead, loaderOpen,
          conflicts, attack_data, combined, combinedWrites>>

\* ------------------------------------------------------------ helpers
SeqsUpTo(S, n) == UNION {[1..k -> S] : k \in 1..n}

Min(a, b) == IF a < b THEN a ELSE b

RECURSIVE SumSeq(_)
SumSeq(s) == IF s = <<>> THEN 0 ELSE Head(s) + SumSeq(Tail(s))

\* the check compares nothing
SumNotChecked(prob) == SumSeq(prob) >= 0

\* np.allclose(probs.sum(axis=1), 1.0) for one row
SumsToOne(prob) == SumSeq(prob) = 2

\* the assert of get_outputs over one batch
BatchCheck(batch) == \A i \in 1..Len(batch) : SumsToOne(batch[i].prob)

\* one batch's rows with the loader's member flag
Tag(batch, member_label) ==
    [i \in 1..Len(batch) |->
        [prob |-> batch[i].prob, label |-> batch[i].label, member |-> member_label]]

\* ------------------------------------------------------------ deduplication
EmptyMap == [v \in {} |-> 0]

\* a map that outlives the model it was built for
SharedUniqueData(files, id) ==
    LET others == {j \in DOMAIN files : j # id}
        known == {v \in ProbVectors :
                    \E j \in others : \E k \in 1..Len(files[j]) : files[j][k].prob = v}
    IN  [v \in known |->
            LET j == CHOOSE j \in others : \E k \in 1..Len(files[j]) : files[j][k].prob = v
                k == CHOOSE k \in 1..Len(files[j]) : files[j][k].prob = v
            IN  files[j][k].member]

\* unique_data = {}
InitialUniqueData(files, id) == EmptyMap

\* a later occurrence with another flag overwrites the flag of the kept record
LastWinsStep(st, rec) ==
    IF rec.prob \notin DOMAIN st.unique_data
    THEN [unique_data |-> st.unique_data @@ (rec.prob :> rec.member),
          filtered |-> Append(st.filtered, rec),
          conflicts |-> st.conflicts]
    ELSE IF st.unique_data[rec.prob] # rec.member
    THEN [unique_data |-> [st.unique_data EXCEPT ![rec.prob] = rec.member],
          filtered |-> [i \in 1..Len(st.filtered) |->
                          IF st.filtered[i].prob = rec.prob
                          THEN [st.filtered[i] EXCEPT !.member = rec.member]
                          ELSE st.filtered[i]],
          conflicts |-> Append(st.conflicts,
                          [prob |-> rec.prob, first |-> st.unique_data[rec.prob],
                           member |-> rec.member])]
    ELSE st

\* a conflicting later occurrence is reported but kept
KeepConflictStep(st, rec) ==
    IF rec.prob \notin DOMAIN st.unique_data
    THEN [unique_data |-> st.unique_data @@ (rec.prob :> rec.member),
          filtered |-> Append(st.filtered, rec),
          conflicts |-> st.conflicts]
    ELSE IF st.unique_data[rec.prob] # rec.member
    THEN [unique_data |-> st.unique_data,
          filtered |-> Append(st.filtered, rec),
          conflicts |-> Append(st.conflicts,
                          [prob |-> rec.prob, first |-> st.unique_data[rec.prob],
                           member |-> rec.member])]
    ELSE st

\* a duplicate removes its key from the map
ForgetKeyStep(st, rec) ==
    IF rec.prob \notin DOMAIN st.unique_data
    THEN [unique_data |-> st.unique_data @@ (rec.prob :> rec.member),
          filtered |-> Append(st.filtered, rec),
          conflicts |-> st.conflicts]
    ELSE [unique_data |-> [v \in DOMAIN st.unique_data \ {rec.prob} |-> st.unique_data[v]],
          filtered |-> st.filtered,
          conflicts |-> IF st.unique_data[rec.prob] # rec.member
                        THEN Append(st.conflicts,
                                [prob |-> rec.prob, first |-> st.unique_data[rec.prob],
                                 member |-> rec.member])
                        ELSE st.conflicts]

\* one iteration of the loop over zip(probabilities, labels, members)
DedupStep(st, rec) ==
    IF rec.prob \notin DOMAIN st.unique_data
    THEN [unique_data |-> st.unique_data @@ (rec.prob :> rec.member),
          filtered |-> Append(st.filtered, rec),
          conflicts |-> st.conflicts]
    ELSE IF st.unique_data[rec.prob] # rec.member
    THEN [st EXCEPT !.conflicts =
            Append(@, [prob |-> rec.prob, first |-> st.unique_data[rec.prob],
                       member |-> rec.member])]
    ELSE st

RECURSIVE DedupLoop(_, _)
DedupLoop(st, records) ==
    IF records = <<>> THEN st
    ELSE DedupLoop(DedupStep(st, Head(records)), Tail(records))

\* the duplicate removal of extract_probabilities, from a given map
Dedup(records, unique_data) ==
    DedupLoop([unique_data |-> unique_data, filtered |-> <<>>, conflicts |-> <<>>],
              records)

\* ------------------------------------------------------------ main loop
Init ==
    /\ shadow_id = 1
    /\ pc = "main"
    /\ error = "none"
    /\ seen = [i \in ShadowIds |-> "not looked"]
    /\ log = [i \in ShadowIds |-> "none"]
    /\ outputs = <<>>
    /\ loaderRead = 0
    /\ loaderOpen = TRUE
    /\ conflicts = <<>>
    /\ attack_data = [i \in ShadowIds |-> NoFile]
    /\ combined = NoFile
    /\ combinedWrites = 0

\* the locals of the previous extract_probabilities call are gone
FreshLocals ==
    /\ outputs' = <<>>
    /\ conflicts' = <<>>
    /\ loaderRead' = 0
    /\ loaderOpen' = TRUE

\* raise instead of continue
AbortOnMissingData ==
    /\ pc = "main"
    /\ shadow_id \in ShadowIds
    /\ \E missing \in {"train", "test"} :
        seen' = [seen EXCEPT ![shadow_id] = missing]
    /\ pc' = "aborted"
    /\ error' = "FileNotFoundError"
    /\ FreshLocals
    /\ UNCHANGED <<shadow_id, log, attack_data, combined, combinedWrites>>

\* train or test data file absent: print and continue
SkipMissingData ==
    /\ pc = "main"
    /\ shadow_id \in ShadowIds
    /\ \E missing \in {"train", "test"} :
        seen' = [seen EXCEPT ![shadow_id] = missing]
    /\ log' = [log EXCEPT ![shadow_id] = "data not found"]
    /\ shadow_id' = shadow_id + 1
    /\ FreshLocals
    /\ UNCHANGED <<pc, error, attack_data, combined, combinedWrites>>

\* data present, checkpoint absent: extract_probabilities prints and returns
SkipMissingModel ==
    /\ pc = "main"
    /\ shadow_id \in ShadowIds
    /\ seen' = [seen EXCEPT ![shadow_id] = "model"]
    /\ log' = [log EXCEPT ![shadow_id] = "model not found"]
    /\ shadow_id' = shadow_id + 1
    /\ FreshLocals
    /\ UNCHANGED <<pc, error, attack_data, combined, combinedWrites>>

\* all artifacts present: load the model and start get_outputs(train_loader, 1)
BeginExtract ==
    /\ pc = "main"
    /\ shadow_id \in ShadowIds
    /\ seen' = [seen EXCEPT ![shadow_id] = "none"]
    /\ pc' = "train"
    /\ FreshLocals
    /\ UNCHANGED <<shadow_id, error, log, attack_data, combined, combinedWrites>>

MemberLabel == IF pc = "train" THEN 1 ELSE 0

\* one batch of get_outputs passes the assert and is appended
GetOutputsBatch ==
    /\ pc \in {"train", "test"}
    /\ loaderOpen
    /\ \E batch \in SeqsUpTo(Samples, Min(BatchSize, MaxSamples - loaderRead)) :
        /\ BatchCheck(batch)
        /\ outputs' = outputs \o Tag(batch, MemberLabel)
        /\ loaderRead' = loaderRead + Len(batch)
        /\ loaderOpen' = (Len(batch) = BatchSize)
    /\ UNCHANGED <<shadow_id, pc, error, seen, log, conflicts, attack_data,
                   combined, combinedWrites>>

\* one batch fails the assert: AssertionError, uncaught; the accumulated
\* outputs are lost with the frame, loaderRead stays as the place of the failure
AssertionFails ==
    /\ pc \in {"train", "test"}
    /\ loaderOpen
    /\ \E batch \in SeqsUpTo(Samples, Min(BatchSize, MaxSamples - loaderRead)) :
        ~BatchCheck(batch)
    /\ pc' = "aborted"
    /\ error' = "AssertionError"
    /\ outputs' = <<>>
    /\ UNCHANGED <<shadow_id, seen, log, loaderRead, loaderOpen, conflicts,
                   attack_data, combined, combinedWrites>>

\* the loader is exhausted: get_outputs returns
LoaderExhausted ==
    /\ pc \in {"train", "test"}
    /\ loaderRead >= 1
    /\ pc' = IF pc = "train" THEN "test" ELSE "dedup"
    /\ loaderRead' = 0
    /\ loaderOpen' = TRUE
    /\ UNCHANGED <<shadow_id, error, seen, log, outputs, conflicts, attack_data,
                   combined, combinedWrites>>

\* remove duplicates, save the archive, return to the loop
DedupAndSave ==
    /\ pc = "dedup"
    /\ LET r == Dedup(outputs, InitialUniqueData(attack_data, shadow_id))
       IN  /\ attack_data' = [attack_data EXCEPT ![shadow_id] = r.filtered]
           /\ conflicts' = r.conflicts
    /\ log' = [log EXCEPT ![shadow_id] = "saved"]
    /\ shadow_id' = shadow_id + 1
    /\ pc' = "main"
    /\ UNCHANGED <<error, seen, outputs, loaderRead, loaderOpen, combined,
                   combinedWrites>>

\* range(1, 31) is exhausted: the loop ends and combine_attack_data is called
EndLoop ==
    /\ pc = "main"
    /\ shadow_id = NumShadowModels + 1
    /\ pc' = "combine"
    /\ FreshLocals
    /\ UNCHANGED <<shadow_id, error, seen, log, attack_data, combined, combinedWrites>>

\* ------------------------------------------------------------ combine
\* os.listdir: the archives present, in an order the file system chooses
ListDirOrders(files) ==
    LET present == {i \in DOMAIN files : files[i] # NoFile}
    IN  {o \in [1..Cardinality(present) -> present] :
            \A i, j \in DOMAIN o : i # j => o[i] # o[j]}

\* np.vstack / np.hstack over the archives in listing order
RECURSIVE Stack(_, _)
Stack(files, order) ==
    IF order = <<>> THEN <<>>
    ELSE files[Head(order)] \o Stack(files, Tail(order))

\* the label column is left out of the feature row
FeaturesNoLabel(rec) == rec.prob

\* np.hstack((all_probabilities, all_labels.reshape(-1, 1))), one row
Features(rec) == Append(rec.prob, rec.label)

\* the generator behind random_state: a linear congruential stream
LcgNext(s) == (s * 25173 + 13849) % 65536

\* rng.permutation: a Fisher-Yates shuffle of positions i..1 driven by the stream
RECURSIVE Shuffle(_, _, _)
Shuffle(seq, i, s) ==
    IF i <= 1 THEN [perm |-> seq, rng |-> s]
    ELSE LET s1 == LcgNext(s)
             j == ((s1 \div 256) % i) + 1
         IN  Shuffle([seq EXCEPT ![i] = seq[j], ![j] = seq[i]], i - 1, s1)

Permutation(seq, s) == Shuffle(seq, Len(seq), s)

\* ceil(test_size * n_samples)
NTest(n) == (TestSizeTenths * n + 9) \div 10

\* ascending positions of class c in y (stable argsort)
RECURSIVE ClassIndices(_, _, _)
ClassIndices(y, c, i) ==
    IF i > Len(y) THEN <<>>
    ELSE IF y[i] = c THEN <<i>> \o ClassIndices(y, c, i + 1)
    ELSE ClassIndices(y, c, i + 1)

ClassCount(y, c) == Cardinality({i \in 1..Len(y) : y[i] = c})

\* np.unique(y), ascending
Classes(y) ==
    LET present == {y[i] : i \in 1..Len(y)}
    IN  IF present = {0, 1} THEN <<0, 1>>
        ELSE IF present = {0} THEN <<0>>
        ELSE IF present = {1} THEN <<1>>
        ELSE <<>>

\* the conditions under which train_test_split raises ValueError
SplitRaises(y) ==
    LET n == Len(y)
        n_test == NTest(n)
        n_train == n - n_test
        cls == Classes(y)
    IN  \/ n_train = 0
        \/ \E k \in 1..Len(cls) : ClassCount(y, cls[k]) < 2
        \/ n_train < Len(cls)
        \/ n_test < Len(cls)

\* _approximate_mode(class_counts, n_draws, rng) for at most two classes:
\* floor of the proportional share, the one draw left over going to the class
\* with the larger remainder, a tie decided by the generator
ApproximateMode(y, cls, n_draws, s) ==
    LET n == Len(y)
        floored == [k \in 1..Len(cls) |-> (ClassCount(y, cls[k]) * n_draws) \div n]
        rem == [k \in 1..Len(cls) |-> (ClassCount(y, cls[k]) * n_draws) % n]
        need == n_draws - SumSeq(floored)
    IN  IF need = 0 THEN [n_i |-> floored, rng |-> s]
        ELSE LET top == {k \in 1..Len(cls) : \A m \in 1..Len(cls) : rem[m] <= rem[k]}
             IN  IF Cardinality(top) = 1
                 THEN [n_i |-> [k \in 1..Len(cls) |->
                                  IF k \in top THEN floored[k] + 1 ELSE floored[k]],
                       rng |-> s]
                 ELSE LET p == Permutation([k \in 1..Len(cls) |-> k], s)
                      IN  [n_i |-> [k \in 1..Len(cls) |->
                                      IF k = p.perm[1] THEN floored[k] + 1 ELSE floored[k]],
                           rng |-> p.rng]

\* the per-class loop of the stratified split, from class k on: the class's
\* positions are permuted, the first n_i[k] go to the train set and the rest
\* (the class's whole remainder, which is its test allotment) to the test set
RECURSIVE PerClass(_, _, _, _, _)
PerClass(y, cls, n_i, k, s) ==
    IF k > Len(cls) THEN [train |-> <<>>, test |-> <<>>, rng |-> s]
    ELSE LET idx == ClassIndices(y, cls[k], 1)
             p == Permutation([m \in 1..Len(idx) |-> m], s)
             permuted == [m \in 1..Len(idx) |-> idx[p.perm[m]]]
             rest == PerClass(y, cls, n_i, k + 1, p.rng)
         IN  [train |-> SubSeq(permuted, 1, n_i[k]) \o rest.train,
              test |-> SubSeq(permuted, n_i[k] + 1, Len(idx)) \o rest.test,
              rng |-> rest.rng]

\* a plain shuffle split: the first n_test shuffled positions are the test set
UnstratifiedIndices(y) ==
    LET n == Len(y)
        p == Permutation([m \in 1..n |-> m], RandomState)
    IN  [train |-> SubSeq(p.perm, NTest(n) + 1, n), test |-> SubSeq(p.perm, 1, NTest(n))]

\* train_test_split(..., test_size=0.3, random_state=42, stratify=y): the
\* positions of the train rows and of the test rows
SplitIndices(y) ==
    LET n == Len(y)
        n_train == n - NTest(n)
        cls == Classes(y)
        mode == ApproximateMode(y, cls, n_train, RandomState)
        drawn == PerClass(y, cls, mode.n_i, 1, mode.rng)
        tr == Permutation(drawn.train, drawn.rng)
        te == Permutation(drawn.test, tr.rng)
    IN  [train |-> tr.perm, test |-> te.perm]

\* the four arrays written to combined_attack_data.npz
CombinedArrays(all) ==
    LET y == [i \in 1..Len(all) |-> all[i].member]
        ix == SplitIndices(y)
    IN  [X_train |-> [k \in 1..Len(ix.train) |-> Features(all[ix.train[k]])],
         y_train |-> [k \in 1..Len(ix.train) |-> y[ix.train[k]]],
         X_test |-> [k \in 1..Len(ix.test) |-> Features(all[ix.test[k]])],
         y_test |-> [k \in 1..Len(ix.test) |-> y[ix.test[k]]]]

AllMembers(files, order) ==
    LET all == Stack(files, order) IN [i \in 1..Len(all) |-> all[i].member]

\* combine_attack_data() after the loop: no archive listed, or a split that
\* train_test_split refuses, raises ValueError
CombineRaises ==
    /\ pc = "combine"
    /\ \E order \in ListDirOrders(attack_data) :
        \/ order = <<>>
        \/ SplitRaises(AllMembers(attack_data, order))
    /\ pc' = "aborted"
    /\ error' = "ValueError"
    /\ UNCHANGED <<shadow_id, seen, log, outputs, loaderRead, loaderOpen, conflicts,
                   attack_data, combined, combinedWrites>>

\* combine_attack_data() after the loop: stack, split, save
Combine ==
    /\ pc = "combine"
    /\ \E order \in ListDirOrders(attack_data) :
        /\ order # <<>>
        /\ ~SplitRaises(AllMembers(attack_data, order))
        /\ combined' = CombinedArrays(Stack(attack_data, order))
    /\ combinedWrites' = combinedWrites + 1
    /\ pc' = "done"
    /\ UNCHANGED <<shadow_id, error, seen, log, outputs, loaderRead, loaderOpen,
                   conflicts, attack_data>>

\* a second run of combine_attack_data() over the same archives
Recombine ==
    /\ pc = "done"
    /\ \E order \in ListDirOrders(attack_data) :
        combined' = CombinedArrays(Stack(attack_data, order))
    /\ combinedWrites' = combinedWrites + 1
    /\ pc' = "recombined"
    /\ UNCHANGED <<shadow_id, error, seen, log, outputs, loaderRead, loaderOpen,
                   conflicts, attack_data>>

Next ==
    \/ SkipMissingData
    \/ SkipMissingModel
    \/ BeginExtract
    \/ GetOutputsBatch
    \/ AssertionFails
    \/ LoaderExhausted
    \/ DedupAndSave
    \/ EndLoop
    \/ CombineRaises
    \/ Combine

Spec == Init /\ [][Next]_vars

\* ------------------------------------------------------------ combine alone
\* vectors found in archives of earlier runs
ArchiveVectors == {<<2, 0>>, <<1, 1>>, <<0, 2>>}

\* a sample carrying the class its vector favours
ArchiveSamples ==
    {[prob |-> v, label |-> IF v[2] > v[1] THEN 1 ELSE 0] : v \in ArchiveVectors}

\* what extract_probabilities saves for some train and test data
Archives ==
    {Dedup(Tag(tr, 1) \o Tag(te, 0), EmptyMap).filtered :
        tr \in SeqsUpTo(ArchiveSamples, MaxSamples),
        te \in SeqsUpTo(ArchiveSamples, MaxSamples)}

\* the end of a main loop that found the train file of every id absent, over an
\* output directory that holds archives of earlier runs
InitCombine ==
    /\ shadow_id = NumShadowModels + 1
    /\ pc = "combine"
    /\ error = "none"
    /\ seen = [i \in ShadowIds |-> "train"]
    /\ log = [i \in ShadowIds |-> "data not found"]
    /\ outputs = <<>>
    /\ loaderRead = 0
    /\ loaderOpen = TRUE
    /\ conflicts = <<>>
    /\ attack_data \in [ShadowIds -> Archives \cup {NoFile}]
    /\ combined = NoFile
    /\ combinedWrites = 0

NextCombine ==
    \/ CombineRaises
    \/ Combine

SpecCombine == InitCombine /\ [][NextCombine]_vars

\* the combine step, and a second run of it over the same archives
NextRerun ==
    \/ CombineRaises
    \/ Combine
    \/ Recombine

SpecRerun == InitCombine /\ [][NextRerun]_vars

\* ------------------------------------------------------------ properties
TypeOK ==
    /\ shadow_id \in 1..(NumShadowModels + 1)
    /\ pc \in {"main", "train", "test", "dedup", "combine", "done", "recombined",
              "aborted"}
    /\ error \in {"none", "AssertionError", "ValueError"}

\* extract_probabilities has just saved the archive of id shadow_id - 1, and
\* outputs still holds what its two loaders produced
JustSaved == pc = "main" /\ outputs # <<>>

LastId == shadow_id - 1

\* position i holds the first occurrence of its vector
IsFirst(recs, i) == \A j \in 1..(i - 1) : recs[j].prob # recs[i].prob

\* the position of the first occurrence of the vector at position i
FirstPos(recs, i) == CHOOSE j \in 1..i : recs[j].prob = recs[i].prob /\ IsFirst(recs, j)

\* later occurrences whose member flag differs from the first-seen flag
Conflicting(recs) ==
    {i \in 1..Len(recs) : recs[i].member # recs[FirstPos(recs, i)].member}

Count(seq, x) == Cardinality({i \in 1..Len(seq) : seq[i] = x})

\* C1: after the duplicate removal of one model's train-then-test outputs, the
\* retained record of every vector is its first occurrence, unaltered (same
\* class label, same member flag), in first-occurrence order; every later
\* occurrence with another member flag is absent from the archive and has one
\* conflict line naming the vector, the first-seen flag and its own flag.
C1_FirstSeenWins ==
    JustSaved =>
        LET a == attack_data[LastId]
            firsts == {i \in 1..Len(outputs) : IsFirst(outputs, i)}
        IN  /\ Len(a) = Cardinality(firsts)
            /\ \A k \in 1..Len(a) :
                 \E i \in firsts :
                    /\ a[k] = outputs[i]
                    /\ Cardinality({j \in firsts : j <= i}) = k
            /\ \A i \in Conflicting(outputs) :
                 /\ \A k \in 1..Len(a) :
                      a[k].prob = outputs[i].prob => a[k] = outputs[FirstPos(outputs, i)]
                 /\ \E c \in 1..Len(conflicts) :
                      conflicts[c] = [prob |-> outputs[i].prob,
                                      first |-> outputs[FirstPos(outputs, i)].member,
                                      member |-> outputs[i].member]
            /\ Len(conflicts) = Cardinality(Conflicting(outputs))

\* a vector seen in train and again in test was saved once, with a conflict line
C1_Witness ==
    /\ JustSaved
    /\ Conflicting(outputs) # {}
    /\ \E i \in Conflicting(outputs) :
          outputs[i].label # outputs[FirstPos(outputs, i)].label
    /\ Len(attack_data[LastId]) = 2

\* C2: a saved archive holds every distinct vector of the model's combined
\* train+test output exactly once.
C2_EachVectorOnce ==
    JustSaved =>
        LET a == attack_data[LastId]
        IN  /\ \A k, m \in 1..Len(a) : a[k].prob = a[m].prob => k = m
            /\ {a[k].prob : k \in 1..Len(a)} = {outputs[i].prob : i \in 1..Len(outputs)}

\* four outputs over two vectors, each vector in train and in test
C2_Witness ==
    /\ JustSaved
    /\ Len(outputs) = 4
    /\ Cardinality({outputs[i].prob : i \in 1..Len(outputs)}) = 2
    /\ Conflicting(outputs) # {}
    /\ Len(attack_data[LastId]) = 2

\* C3: the duplicate removal applied to a saved archive returns the archive
\* itself, and reports no conflict.
C3_Idempotent ==
    JustSaved =>
        LET again == Dedup(attack_data[LastId], EmptyMap)
        IN  /\ again.filtered = attack_data[LastId]
            /\ again.conflicts = <<>>

\* the first pass dropped records and reported a conflict
C3_Witness ==
    /\ JustSaved
    /\ Len(attack_data[LastId]) < Len(outputs)
    /\ conflicts # <<>>
    /\ \E v \in ProbVectors : Cardinality({i \in 1..Len(outputs) : outputs[i].prob = v}) >= 3
    /\ Dedup(attack_data[LastId], EmptyMap).filtered = attack_data[LastId]

\* a step of the loop that finds an artifact of the current id absent
C4_SkipStep ==
    (pc = "main" /\ shadow_id \in ShadowIds /\ seen'[shadow_id] \in Absent) =>
        /\ log'[shadow_id] \in {"data not found", "model not found"}
        /\ attack_data' = attack_data
        /\ combined' = combined
        /\ shadow_id' = shadow_id + 1
        /\ pc' = "main"
        /\ error' = "none"
        /\ \A j \in ShadowIds : j # shadow_id => log'[j] = log[j]

\* at the end of the loop no id was left out
C4_AllVisited ==
    (shadow_id = NumShadowModels + 1) =>
        \A i \in ShadowIds :
            /\ log[i] # "none"
            /\ (log[i] = "saved") = (seen[i] = "none")

\* C4: when the loop finds the checkpoint, the train file or the test file of
\* the current id absent it prints a skip line, writes nothing to the output
\* directory and moves to the next id without raising, leaving the other ids'
\* status lines alone; and when the loop is over every id has been looked at,
\* saved if all its artifacts were there and skipped otherwise.
C4_SkipContinues == [][C4_SkipStep]_vars /\ []C4_AllVisited

\* id 1 was skipped for a missing checkpoint, id 2 was extracted and saved
C4_Witness ==
    /\ pc = "done"
    /\ seen[1] = "model"
    /\ log[1] = "model not found"
    /\ log[2] = "saved"
    /\ attack_data[2] # NoFile

\* C5: every vector of every archive in the output directory sums to one; a
\* failed sum check ends the run with the id's archive unwritten, and nothing
\* runs after it.
C5_SumCheckFatal ==
    /\ \A i \in ShadowIds : \A k \in 1..Len(attack_data[i]) :
          attack_data[i][k].prob[1] + attack_data[i][k].prob[2] = 2
    /\ error = "AssertionError" =>
          /\ pc = "aborted"
          /\ log[shadow_id] = "none"
          /\ combined = NoFile
          /\ ~ENABLED Next

\* a later batch of one of id 2's loaders failed the check, after id 1 was
\* saved and after an earlier batch of that loader had passed
C5_Witness ==
    /\ error = "AssertionError"
    /\ pc = "aborted"
    /\ shadow_id = 2
    /\ log[1] = "saved"
    /\ log[2] = "none"
    /\ attack_data[2] = NoFile
    /\ loaderRead >= 1

RECURSIVE SumLen(_, _)
SumLen(files, ids) ==
    IF ids = {} THEN 0
    ELSE LET i == CHOOSE i \in ids : TRUE
         IN  Len(files[i]) + SumLen(files, ids \ {i})

Written == pc = "done"

\* C6: the combined archive holds as many records as the archives together (at
\* most 2 * MaxSamples per id); every archived record is in exactly one of the
\* train and test arrays, as probability vector followed by class label, paired
\* with its own member flag; the test set is 30% of the records rounded up to a
\* whole record.
C6_ConcatAndSplit ==
    Written =>
        LET n == SumLen(attack_data, ShadowIds)
            trainPairs == [k \in 1..Len(combined.X_train) |->
                              <<combined.X_train[k], combined.y_train[k]>>]
            testPairs == [k \in 1..Len(combined.X_test) |->
                              <<combined.X_test[k], combined.y_test[k]>>]
            archived == UNION {{<<i, k>> : k \in 1..Len(attack_data[i])} : i \in ShadowIds}
            pairOf(ik) == <<Append(attack_data[ik[1]][ik[2]].prob,
                                   attack_data[ik[1]][ik[2]].label),
                            attack_data[ik[1]][ik[2]].member>>
        IN  /\ Len(combined.X_train) + Len(combined.X_test) = n
            /\ n <= NumShadowModels * (MaxSamples + MaxSamples)
            /\ Len(combined.y_train) = Len(combined.X_train)
            /\ Len(combined.y_test) = Len(combined.X_test)
            /\ \A ik \in archived :
                 Count(trainPairs, pairOf(ik)) + Count(testPairs, pairOf(ik))
                    = Cardinality({jm \in archived : pairOf(jm) = pairOf(ik)})
            /\ 10 * Len(combined.X_test) >= TestSizeTenths * n
            /\ 10 * Len(combined.X_test) < TestSizeTenths * n + 10

\* six records of two archives, four in the train set and two in the test set
C6_Witness ==
    /\ pc = "done"
    /\ Len(attack_data[1]) = 3
    /\ Len(attack_data[2]) = 3
    /\ Len(combined.X_train) = 4
    /\ Len(combined.X_test) = 2
    /\ \E k \in 1..4 : combined.X_train[k] \in {<<0, 2, 1>>}

\* C7: in the train set and in the test set the number of records of each member
\* flag differs by less than one record from the share that flag has in the
\* whole combined data.
C7_Stratified ==
    Written =>
        LET y == combined.y_train \o combined.y_test
            n == Len(y)
        IN  \A c \in {0, 1} :
              LET all == Count(y, c)
                  tr == Count(combined.y_train, c)
                  te == Count(combined.y_test, c)
                  dTr == tr * n - all * Len(combined.y_train)
                  dTe == te * n - all * Len(combined.y_test)
              IN  /\ dTr < n /\ -dTr < n
                  /\ dTe < n /\ -dTe < n

\* four members and two non-members: the test set holds one or two members
C7_Witness ==
    /\ pc = "done"
    /\ Count(combined.y_train \o combined.y_test, 1) = 4
    /\ Count(combined.y_train \o combined.y_test, 0) = 2
    /\ Count(combined.y_test, 1) >= 1
    /\ Count(combined.y_train, 0) >= 1

\* C8: a second run of combine_attack_data over the same archives writes the
\* same train and test arrays as the first.
C8_Reproducible ==
    [][(pc = "done" /\ pc' = "recombined") => combined' = combined]_vars

\* a step writes no archive but the one of the id being extracted
C9_FrameStep ==
    \A j \in ShadowIds : (j # shadow_id \/ pc # "dedup") => attack_data'[j] = attack_data[j]

\* what one extraction saves and reports depends on its own outputs only
C9_OwnRecordsOnly ==
    /\ JustSaved =>
        /\ {outputs[i].prob : i \in 1..Len(outputs)}
              = {attack_data[LastId][k].prob : k \in 1..Len(attack_data[LastId])}
        /\ \A c \in 1..Len(conflicts) :
              \E i, j \in 1..Len(outputs) :
                 /\ i < j
                 /\ outputs[i].prob = conflicts[c].prob
                 /\ outputs[j].prob = conflicts[c].prob
                 /\ outputs[i].member = conflicts[c].first
                 /\ outputs[j].member = conflicts[c].member
    /\ pc = "done" =>
        \A v \in ProbVectors :
            Cardinality({k \in 1..Len(combined.X_train) :
                            SubSeq(combined.X_train[k], 1, 2) = v})
            + Cardinality({k \in 1..Len(combined.X_test) :
                            SubSeq(combined.X_test[k], 1, 2) = v})
            = Cardinality({i \in ShadowIds :
                            \E k \in 1..Len(attack_data[i]) : attack_data[i][k].prob = v})

\* C9: saving one model's archive leaves every other archive as it was; the
\* archive holds every vector its own loaders produced, whatever the other
\* archives hold, and its conflict lines are about its own records; the combined
\* data holds a vector once per archive that holds it.
C9_FreshMapPerModel == [][C9_FrameStep]_vars /\ []C9_OwnRecordsOnly

\* both models produced <<1, 1>>, model 1 for a member and model 2 for a
\* non-member only; both archives hold it and the combined data hold it twice
C9_Witness ==
    /\ pc = "done"
    /\ log[1] = "saved"
    /\ log[2] = "saved"
    /\ \E k \in 1..Len(attack_data[1]) :
          attack_data[1][k].prob = <<1, 1>> /\ attack_data[1][k].member = 1
    /\ \E k \in 1..Len(attack_data[2]) :
          attack_data[2][k].prob = <<1, 1>> /\ attack_data[2][k].member = 0
    /\ Cardinality({k \in 1..Len(combined.X_train) :
                        SubSeq(combined.X_train[k], 1, 2) = <<1, 1>>})
       + Cardinality({k \in 1..Len(combined.X_test) :
                        SubSeq(combined.X_test[k], 1, 2) = <<1, 1>>}) = 2

\* the records this run saved
SavedThisRun ==
    UNION {{<<i, k>> : k \in 1..Len(attack_data[i])} : i \in {j \in ShadowIds : log[j] = "saved"}}

\* C10: a run without a failed sum check ends with the combined archive written
\* once, after every id was saved or skipped, and the combined data are the
\* records of the ids this run did not skip.
C10_CombinedOnceFromThisRun ==
    /\ pc = "aborted" => error = "AssertionError"
    /\ pc = "done" =>
        /\ combinedWrites = 1
        /\ \A i \in ShadowIds : log[i] # "none"
        /\ Len(combined.X_train) + Len(combined.X_test) = Cardinality(SavedThisRun)

====
